---- MODULE Spec2Model ----
(***************************************************************************)
(* Latency tester of ping-pong-socket: the client session of               *)
(* src/client/main.js (class LatencyTester), the socket.io echo handler of *)
(* src/server/server.js, the browser's interval timers and the messages in *)
(* flight between the two.                                                 *)
(*                                                                         *)
(* The methods of LatencyTester are operators over a record `t` that holds *)
(* the object's fields together with the pieces of the runtime the methods *)
(* touch (the armed interval timers, the emitted 'ping' events).  An       *)
(* action reads the record from the variables (This), runs the whole       *)
(* handler on it and writes the result back (Commit).                      *)
(***************************************************************************)
EXTENDS Integers, Sequences, FiniteSets, TLC

\* ---------------------------------------------------------------- bounds
MaxSeq == 2
MaxTime == 1500
TickMs == 250

\* ------------------------------------------------------ program constants
DefaultPingInterval == 200
lossTimeoutFactor == 5
maxSamples == 50
SweepFloorMs == 500
NoTimer == 0

\* values the pingInterval <select> can deliver to the 'change' listener
PingIntervals == {200, 250}

VARIABLES
    connected,        \* this.socket.connected
    sequenceNumber,   \* this.sequenceNumber
    pingInterval,     \* this.pingInterval
    pingTimer,        \* this.pingTimer      (NoTimer = null)
    lossSweepTimer,   \* this.lossSweepTimer (NoTimer = null)
    rttSamples,       \* this.rttSamples
    packetsSent,      \* this.packetsSent
    packetsReceived,  \* this.packetsReceived
    pendingPings,     \* this.pendingPings : sequenceNumber -> clientSentAt
    lostCount,        \* this.lostCount
    display,          \* this.elements.*.textContent, the metrics on the page
    intervals,        \* interval timers armed in the runtime
    pingsInFlight,    \* 'ping' events emitted, not yet handled by the server
    pongsInFlight,    \* 'pong' events emitted, not yet handled by the client
    now,              \* Date.now()
    recvFor,          \* history: per seq, times packetsReceived was incremented for it
    lostFor,          \* history: per seq, times lostCount was incremented for it
    sentTimeout,      \* history: per seq, pingInterval * lossTimeoutFactor when it was sent
    usedSeqs,         \* history: sequence numbers handed out so far
    arrivals,         \* history: every rtt pushed into rttSamples, in order
    pendingAtDisconnect, \* history: seqs that were pending when a disconnect handler ran
    lastEvent,        \* history: the handler that ran last
    socketOpen,       \* server: the socket of io.on('connection') is connected
    webrtcPeer,       \* server: `let webrtcPeer` of that socket (NoPeer = null)
    peers             \* server: the objects createNetworkTestPeer has returned

vars == <<connected, sequenceNumber, pingInterval, pingTimer, lossSweepTimer,
          rttSamples, packetsSent, packetsReceived, pendingPings, lostCount,
          intervals, pingsInFlight, pongsInFlight, now, recvFor, lostFor,
          sentTimeout, usedSeqs, pendingAtDisconnect, lastEvent, display,
          arrivals, socketOpen, webrtcPeer, peers>>

Seqs == 1..MaxSeq

\* ------------------------------------------------------------ Map helpers
EmptyMap == [k \in {} |-> 0]

MapSet(m, k, v) == [x \in (DOMAIN m) \cup {k} |-> IF x = k THEN v ELSE m[x]]

MapDelete(m, k) == [x \in (DOMAIN m) \ {k} |-> m[x]]

Bump(f, k) == IF k \in DOMAIN f THEN [f EXCEPT ![k] = @ + 1] ELSE f

Max(a, b) == IF a >= b THEN a ELSE b

\* ------------------------------------------------- the object as a record
This ==
    [connected |-> connected, sequenceNumber |-> sequenceNumber,
     pingInterval |-> pingInterval, pingTimer |-> pingTimer,
     lossSweepTimer |-> lossSweepTimer, rttSamples |-> rttSamples,
     packetsSent |-> packetsSent, packetsReceived |-> packetsReceived,
     pendingPings |-> pendingPings, lostCount |-> lostCount,
     intervals |-> intervals, pingsInFlight |-> pingsInFlight,
     recvFor |-> recvFor, lostFor |-> lostFor, sentTimeout |-> sentTimeout,
     usedSeqs |-> usedSeqs, display |-> display, arrivals |-> arrivals,
     socketOpen |-> socketOpen, webrtcPeer |-> webrtcPeer, peers |-> peers]

Commit(t) ==
    /\ connected' = t.connected
    /\ sequenceNumber' = t.sequenceNumber
    /\ pingInterval' = t.pingInterval
    /\ pingTimer' = t.pingTimer
    /\ lossSweepTimer' = t.lossSweepTimer
    /\ rttSamples' = t.rttSamples
    /\ packetsSent' = t.packetsSent
    /\ packetsReceived' = t.packetsReceived
    /\ pendingPings' = t.pendingPings
    /\ lostCount' = t.lostCount
    /\ intervals' = t.intervals
    /\ pingsInFlight' = t.pingsInFlight
    /\ recvFor' = t.recvFor
    /\ lostFor' = t.lostFor
    /\ sentTimeout' = t.sentTimeout
    /\ usedSeqs' = t.usedSeqs
    /\ display' = t.display
    /\ arrivals' = t.arrivals
    /\ socketOpen' = t.socketOpen
    /\ webrtcPeer' = t.webrtcPeer
    /\ peers' = t.peers

Event(op, seq, hit, swept) == [op |-> op, seq |-> seq, hit |-> hit, swept |-> swept]

\* ------------------------------------------------------- runtime: timers
\* setInterval(fn, every): arms a repeating timer under a handle that no
\* armed timer carries; it first comes due `every` ms from now.
NewTimerId(t) ==
    CHOOSE i \in 1..(Cardinality(t.intervals) + 1) :
        /\ \A x \in t.intervals : x.id # i
        /\ \A j \in 1..(i - 1) : \E x \in t.intervals : x.id = j

setInterval(t, id, fn, every) ==
    [t EXCEPT !.intervals = @ \cup {[id |-> id, fn |-> fn, every |-> every, due |-> now + every]}]

clearInterval(t, id) ==
    [t EXCEPT !.intervals = {x \in @ : x.id # id}]

\* ------------------------------------------------------ statistics engine
\* Latencies and jitter are kept in hundredths of a millisecond and the
\* packet loss in hundredths of a percent, so that "rounded to 2 decimals"
\* is an integer: Math.round(x * 100) / 100 is the integer Math.round(x * 100).
Scale == 100

\* the sample a malformed echo leaves in rttSamples (now - undefined)
NaN == -1

\* Math.round(a / b) for a >= 0, b > 0: to the nearest integer, halves upward
RoundDiv(a, b) == (2 * a + b) \div (2 * b)

Abs(x) == IF x >= 0 THEN x ELSE 0 - x

HasNaN(s) == \E i \in 1..Len(s) : s[i] = NaN

\* this.rttSamples.reduce((acc, rtt) => acc + rtt, 0)
RECURSIVE Sum(_)
Sum(s) == IF s = <<>> THEN 0 ELSE Head(s) + Sum(Tail(s))

\* the jitter loop: jitterSum after the iterations i, i + 1, ..., length - 1
\* (i counts from 1 in the source and names the pair s[i], s[i + 1] here)
RECURSIVE JitterSum(_, _)
JitterSum(s, i) ==
    IF i >= Len(s) THEN 0 ELSE Abs(s[i + 1] - s[i]) + JitterSum(s, i + 1)

\* calculateMetrics with the jitter sum divided by the number of samples
calculateMetrics_jitterOverLength(t) ==
    LET n == Len(t.rttSamples)
        nan == HasNaN(t.rttSamples)
        totalSent == IF t.packetsSent # 0 THEN t.packetsSent ELSE 1
    IN [lastLatency |-> IF n > 0 THEN t.rttSamples[n] ELSE 0,
        avgLatency |-> IF n > 0
                       THEN (IF nan THEN NaN ELSE RoundDiv(Sum(t.rttSamples) * Scale, n))
                       ELSE 0,
        jitter |-> IF n > 1
                   THEN (IF nan THEN NaN
                         ELSE RoundDiv(JitterSum(t.rttSamples, 1) * Scale, n))
                   ELSE 0,
        packetLoss |-> RoundDiv(t.lostCount * 100 * Scale, totalSent)]

\* calculateMetrics with the packet loss rounded to a whole percent
calculateMetrics_wholePercent(t) ==
    LET n == Len(t.rttSamples)
        nan == HasNaN(t.rttSamples)
        totalSent == IF t.packetsSent # 0 THEN t.packetsSent ELSE 1
    IN [lastLatency |-> IF n > 0 THEN t.rttSamples[n] ELSE 0,
        avgLatency |-> IF n > 0
                       THEN (IF nan THEN NaN ELSE RoundDiv(Sum(t.rttSamples) * Scale, n))
                       ELSE 0,
        jitter |-> IF n > 1
                   THEN (IF nan THEN NaN
                         ELSE RoundDiv(JitterSum(t.rttSamples, 1) * Scale, n - 1))
                   ELSE 0,
        packetLoss |-> RoundDiv(t.lostCount * 100, totalSent) * Scale]

calculateMetrics(t) ==
    LET n == Len(t.rttSamples)
        nan == HasNaN(t.rttSamples)
        totalSent == IF t.packetsSent # 0 THEN t.packetsSent ELSE 1
    IN [lastLatency |-> IF n > 0 THEN t.rttSamples[n] ELSE 0,
        avgLatency |-> IF n > 0
                       THEN (IF nan THEN NaN ELSE RoundDiv(Sum(t.rttSamples) * Scale, n))
                       ELSE 0,
        jitter |-> IF n > 1
                   THEN (IF nan THEN NaN
                         ELSE RoundDiv(JitterSum(t.rttSamples, 1) * Scale, n - 1))
                   ELSE 0,
        packetLoss |-> RoundDiv(t.lostCount * 100 * Scale, totalSent)]

\* a < b as JavaScript evaluates it: false when a is NaN
Less(a, b) == a # NaN /\ a < b

\* getNetworkQuality with <= for the Good latency threshold
getNetworkQuality_inclusive(t, metrics) ==
    IF t.packetsSent < 5 THEN "Unknown"
    ELSE IF /\ metrics.avgLatency # NaN /\ metrics.avgLatency <= 120 * Scale
            /\ Less(metrics.jitter, 30 * Scale)
            /\ Less(metrics.packetLoss, 1 * Scale) THEN "Good"
    ELSE IF /\ Less(metrics.avgLatency, 250 * Scale)
            /\ Less(metrics.jitter, 80 * Scale)
            /\ Less(metrics.packetLoss, 3 * Scale) THEN "Moderate"
    ELSE "Poor"

getNetworkQuality(t, metrics) ==
    IF t.packetsSent < 5 THEN "Unknown"
    ELSE IF /\ Less(metrics.avgLatency, 120 * Scale)
            /\ Less(metrics.jitter, 30 * Scale)
            /\ Less(metrics.packetLoss, 1 * Scale) THEN "Good"
    ELSE IF /\ Less(metrics.avgLatency, 250 * Scale)
            /\ Less(metrics.jitter, 80 * Scale)
            /\ Less(metrics.packetLoss, 3 * Scale) THEN "Moderate"
    ELSE "Poor"

updateMetricsDisplay(t) ==
    LET metrics == calculateMetrics(t)
    IN [t EXCEPT !.display = [lastLatency |-> metrics.lastLatency,
                              avgLatency |-> metrics.avgLatency,
                              jitter |-> metrics.jitter,
                              packetsSent |-> t.packetsSent,
                              packetsReceived |-> t.packetsReceived,
                              packetLoss |-> metrics.packetLoss,
                              quality |-> getNetworkQuality(t, metrics)]]

\* the metrics on the page before the first updateMetricsDisplay
PageAsLoaded ==
    [lastLatency |-> 0, avgLatency |-> 0, jitter |-> 0, packetsSent |-> 0,
     packetsReceived |-> 0, packetLoss |-> 0, quality |-> "-"]

\* --------------------------------------------------- LatencyTester methods
\* sendPing without the connection check
sendPing_noGuard(t) ==
    LET seq == t.sequenceNumber + 1
        clientSentAt == now
    IN updateMetricsDisplay(
       [t EXCEPT !.sequenceNumber = seq,
                 !.packetsSent = @ + 1,
                 !.pendingPings = MapSet(@, seq, clientSentAt),
                 !.pingsInFlight = @ \cup {[sequenceNumber |-> seq,
                                            clientSentAt |-> clientSentAt]},
                 !.usedSeqs = @ \cup {seq},
                 !.sentTimeout = [@ EXCEPT ![seq] = t.pingInterval * lossTimeoutFactor]])

\* sendPing that reuses the current sequence number instead of allocating one
sendPing_sameSeq(t) ==
    IF ~t.connected
    THEN t
    ELSE LET seq == Max(t.sequenceNumber, 1)
             clientSentAt == now
         IN updateMetricsDisplay(
            [t EXCEPT !.sequenceNumber = seq,
                      !.packetsSent = @ + 1,
                      !.pendingPings = MapSet(@, seq, clientSentAt),
                      !.pingsInFlight = @ \cup {[sequenceNumber |-> seq,
                                                 clientSentAt |-> clientSentAt]},
                      !.usedSeqs = @ \cup {seq},
                      !.sentTimeout = [@ EXCEPT ![seq] = t.pingInterval * lossTimeoutFactor]])

sendPing(t) ==
    IF ~t.connected
    THEN t
    ELSE LET seq == t.sequenceNumber + 1
             clientSentAt == now
         IN updateMetricsDisplay(
            [t EXCEPT !.sequenceNumber = seq,
                      !.packetsSent = @ + 1,
                      !.pendingPings = MapSet(@, seq, clientSentAt),
                      !.pingsInFlight = @ \cup {[sequenceNumber |-> seq,
                                                 clientSentAt |-> clientSentAt]},
                      !.usedSeqs = @ \cup {seq},
                      !.sentTimeout = [@ EXCEPT ![seq] = t.pingInterval * lossTimeoutFactor]])

\* startPinging that numbers the probes of each session from 1 again
startPinging_restartsSeq(t) ==
    LET t1 == IF t.pingTimer # NoTimer THEN clearInterval(t, t.pingTimer) ELSE t
        id == NewTimerId(t1)
        t2 == [setInterval(t1, id, "sendPing", t1.pingInterval) EXCEPT !.pingTimer = id]
    IN sendPing([t2 EXCEPT !.sequenceNumber = IF t.pingTimer = NoTimer THEN 0 ELSE @])

startPinging(t) ==
    LET t1 == IF t.pingTimer # NoTimer THEN clearInterval(t, t.pingTimer) ELSE t
        id == NewTimerId(t1)
        t2 == [setInterval(t1, id, "sendPing", t1.pingInterval) EXCEPT !.pingTimer = id]
    IN sendPing(t2)

\* stopPinging that forgets the handle without cancelling the timer
stopPinging_keepsTimer(t) ==
    [t EXCEPT !.pingTimer = NoTimer]

stopPinging(t) ==
    IF t.pingTimer # NoTimer
    THEN [clearInterval(t, t.pingTimer) EXCEPT !.pingTimer = NoTimer]
    ELSE t

startLossSweep(t) ==
    LET t1 == IF t.lossSweepTimer # NoTimer THEN clearInterval(t, t.lossSweepTimer) ELSE t
        sweepInterval == Max(t1.pingInterval, SweepFloorMs)
        id == NewTimerId(t1)
    IN [setInterval(t1, id, "performLossSweep", sweepInterval) EXCEPT !.lossSweepTimer = id]

stopLossSweep(t) ==
    IF t.lossSweepTimer # NoTimer
    THEN [clearInterval(t, t.lossSweepTimer) EXCEPT !.lossSweepTimer = NoTimer]
    ELSE t

\* the loop with >= in place of >
Expired_inclusive(t) ==
    LET lossTimeout == t.pingInterval * lossTimeoutFactor
    IN {s \in DOMAIN t.pendingPings : now - t.pendingPings[s] >= lossTimeout}

\* the loop with the timeout taken from the interval in force at send time
Expired_sendTime(t) ==
    {s \in DOMAIN t.pendingPings : now - t.pendingPings[s] > t.sentTimeout[s]}

\* the entries the for-of loop of performLossSweep deletes
Expired(t) ==
    LET lossTimeout == t.pingInterval * lossTimeoutFactor
    IN {s \in DOMAIN t.pendingPings : now - t.pendingPings[s] > lossTimeout}

\* performLossSweep that counts one loss per sweep that removed something
performLossSweep_onePerSweep(t) ==
    LET gone == Expired(t)
        t1 == [t EXCEPT !.lostCount = @ + (IF gone = {} THEN 0 ELSE 1),
                        !.pendingPings = [s \in (DOMAIN @) \ gone |-> @[s]],
                        !.lostFor = [s \in DOMAIN @ |->
                                        IF s \in gone THEN @[s] + 1 ELSE @[s]]]
    IN IF t1.lostCount > 0 THEN updateMetricsDisplay(t1) ELSE t1

performLossSweep(t) ==
    LET gone == Expired(t)
        t1 == [t EXCEPT !.lostCount = @ + Cardinality(gone),
                        !.pendingPings = [s \in (DOMAIN @) \ gone |-> @[s]],
                        !.lostFor = [s \in DOMAIN @ |->
                                        IF s \in gone THEN @[s] + 1 ELSE @[s]]]
    IN IF t1.lostCount > 0 THEN updateMetricsDisplay(t1) ELSE t1

\* handlePong that leaves the echoed probe in the pending table
handlePong_keepsPending(t, data) ==
    IF "undefined" \in DOMAIN data
    THEN t
    ELSE LET clientReceivedAt == now
             hasSeq == "sequenceNumber" \in DOMAIN data
             rtt == IF "clientSentAt" \in DOMAIN data
                    THEN clientReceivedAt - data.clientSentAt
                    ELSE NaN
             pushed == Append(t.rttSamples, rtt)
         IN updateMetricsDisplay(
            [t EXCEPT !.packetsReceived = @ + 1,
                      !.rttSamples = IF Len(pushed) > maxSamples
                                     THEN Tail(pushed) ELSE pushed,
                      !.recvFor = IF hasSeq THEN Bump(@, data.sequenceNumber)
                                  ELSE @,
                      !.arrivals = Append(@, rtt)])

\* handlePong that never evicts the oldest sample
handlePong_noShift(t, data) ==
    LET rtt == now - data.clientSentAt
    IN updateMetricsDisplay(
       [t EXCEPT !.pendingPings = MapDelete(@, data.sequenceNumber),
                 !.packetsReceived = @ + 1,
                 !.rttSamples = Append(@, rtt),
                 !.recvFor = Bump(@, data.sequenceNumber),
                 !.arrivals = Append(@, rtt)])

\* An echo is a record of the fields its payload has; a payload that lacks
\* a field is a record without it, and an event without payload is NoPayload.
NoPayload == [undefined |-> TRUE]

handlePong(t, data) ==
    IF "undefined" \in DOMAIN data
    THEN t      \* data.clientSentAt throws before anything is assigned
    ELSE LET clientReceivedAt == now
             hasSeq == "sequenceNumber" \in DOMAIN data
             rtt == IF "clientSentAt" \in DOMAIN data
                    THEN clientReceivedAt - data.clientSentAt
                    ELSE NaN
             pushed == Append(t.rttSamples, rtt)
         IN updateMetricsDisplay(
            [t EXCEPT !.pendingPings = IF hasSeq THEN MapDelete(@, data.sequenceNumber) ELSE @,
                      !.packetsReceived = @ + 1,
                      !.rttSamples = IF Len(pushed) > maxSamples THEN Tail(pushed) ELSE pushed,
                      !.recvFor = IF hasSeq THEN Bump(@, data.sequenceNumber) ELSE @,
                      !.arrivals = Append(@, rtt)])

\* the listener without the connection check
onPingIntervalChange_always(t, v) ==
    LET t0 == [t EXCEPT !.pingInterval = v]
    IN startLossSweep(startPinging(stopLossSweep(stopPinging(t0))))

\* body of the 'change' listener installed by setupEventListeners
onPingIntervalChange(t, v) ==
    LET t0 == [t EXCEPT !.pingInterval = v]
    IN IF t0.connected
       THEN startLossSweep(startPinging(stopLossSweep(stopPinging(t0))))
       ELSE t0

\* ------------------------------------------- server: network-test peer
\* createNetworkTestPeer of src/server/webrtcNetworkTestPeer.js.  A peer is a
\* record of its closure variables (isClosed, dataChannel) and of what its
\* code has done to the werift objects it owns: the close() calls on the
\* peer connection and on data channels, the offers and ICE candidates
\* handed to the peer connection, the messages sent on data channels.
MaxPeers == 2
MaxChannels == 2
MaxCalls == 1
MaxSent == 2

NoPeer == 0
NoChannel == 0
PeerIds == 1..MaxPeers
ChanIds == 1..MaxChannels

\* a slot of `peers` no createNetworkTestPeer call has filled
NotCreated ==
    [created |-> FALSE, owner |-> "none", isClosed |-> FALSE,
     dataChannel |-> NoChannel, readyState |-> [c \in ChanIds |-> "none"],
     connectionState |-> "new", closedEventDue |-> FALSE,
     pcCloses |-> 0, dcCloses |-> 0, offers |-> 0, iceAdds |-> 0,
     offerResult |-> "none", sent |-> <<>>]

\* the peer as createNetworkTestPeer returns it; `owner` tells whose
\* onConnectionStateChange callback it was given: "socket" for the one of
\* server.js, "none" for the default () => {}
createNetworkTestPeer(owner) ==
    [NotCreated EXCEPT !.created = TRUE, !.owner = owner]

\* JSON.parse of the texts a data channel may deliver
PingText(ts) ==
    CASE ts = 1 -> "{\"type\":\"ping\",\"timestamp\":1}"
      [] ts = 2 -> "{\"type\":\"ping\",\"timestamp\":2}"

PongText(ts) ==
    CASE ts = 1 -> "{\"type\":\"pong\",\"timestamp\":1}"
      [] ts = 2 -> "{\"type\":\"pong\",\"timestamp\":2}"

Timestamps == {1, 2}

ChannelTexts ==
    {PingText(ts) : ts \in Timestamps}
        \cup {"{\"type\":\"ping\"}", "{\"type\":\"pong\",\"timestamp\":1}",
              "{\"type\":\"echo\"}", "{}", "null", "ping"}

JSONparse(text) ==
    CASE text = PingText(1) -> [ok |-> TRUE, value |-> [type |-> "ping", timestamp |-> 1]]
      [] text = PingText(2) -> [ok |-> TRUE, value |-> [type |-> "ping", timestamp |-> 2]]
      [] text = "{\"type\":\"ping\"}" -> [ok |-> TRUE, value |-> [type |-> "ping"]]
      [] text = PongText(1) -> [ok |-> TRUE, value |-> [type |-> "pong", timestamp |-> 1]]
      [] text = "{\"type\":\"echo\"}" -> [ok |-> TRUE, value |-> [type |-> "echo"]]
      [] text = "{}" -> [ok |-> TRUE, value |-> [object |-> TRUE]]
      [] text = "null" -> [ok |-> TRUE, value |-> [null |-> TRUE]]
      [] OTHER -> [ok |-> FALSE]

\* JSON.stringify of a pong object; a property that is undefined is left out
JSONstringify(obj) ==
    IF "timestamp" \in DOMAIN obj THEN PongText(obj.timestamp)
    ELSE "{\"type\":\"pong\"}"

\* the subscriber with a pongMessage that carries the other timestamp
onMessage_shiftsTimestamp(t, p, data) ==
    LET peer == t.peers[p]
        parsed == JSONparse(data)
    IN IF ~parsed.ok \/ "null" \in DOMAIN parsed.value THEN t
       ELSE LET message == parsed.value
            IN IF "type" \in DOMAIN message /\ message.type = "ping"
               THEN LET pongMessage ==
                            IF "timestamp" \in DOMAIN message
                            THEN [type |-> "pong", timestamp |-> 3 - message.timestamp]
                            ELSE [type |-> "pong"]
                    IN IF /\ peer.dataChannel # NoChannel
                          /\ peer.readyState[peer.dataChannel] = "open"
                       THEN [t EXCEPT !.peers[p].sent =
                                Append(@, [channel |-> peer.dataChannel,
                                           text |-> JSONstringify(pongMessage)])]
                       ELSE t
               ELSE t

\* dataChannel.onMessage subscriber
onMessage(t, p, data) ==
    LET peer == t.peers[p]
        parsed == JSONparse(data)
    IN IF ~parsed.ok \/ "null" \in DOMAIN parsed.value
       THEN t      \* JSON.parse or message.type throws; the catch logs
       ELSE LET message == parsed.value
            IN IF "type" \in DOMAIN message /\ message.type = "ping"
               THEN LET pongMessage ==
                            IF "timestamp" \in DOMAIN message
                            THEN [type |-> "pong", timestamp |-> message.timestamp]
                            ELSE [type |-> "pong"]
                    IN IF /\ peer.dataChannel # NoChannel
                          /\ peer.readyState[peer.dataChannel] = "open"
                       THEN [t EXCEPT !.peers[p].sent =
                                Append(@, [channel |-> peer.dataChannel,
                                           text |-> JSONstringify(pongMessage)])]
                       ELSE t
               ELSE t

\* handleOffer that does not look at isClosed
handleOffer_unchecked(t, p) ==
    [t EXCEPT !.peers[p].offers = @ + 1, !.peers[p].offerResult = "pending"]

\* handleOffer up to its first await: it throws when the peer is closed,
\* else it hands the offer to the peer connection
handleOffer(t, p) ==
    IF t.peers[p].isClosed
    THEN [t EXCEPT !.peers[p].offerResult = "Peer connection is closed"]
    ELSE [t EXCEPT !.peers[p].offers = @ + 1, !.peers[p].offerResult = "pending"]

\* addIceCandidate; `candidateInit` is "null" or a candidate
addIceCandidate(t, p, candidateInit) ==
    IF t.peers[p].isClosed THEN t
    ELSE IF candidateInit # "null"
         THEN [t EXCEPT !.peers[p].iceAdds = @ + 1]
         ELSE t

\* cleanup, the connectionStateChange subscriber and the socket's
\* onConnectionStateChange callback call one another.  peerConnection.close()
\* makes the connection state "closed"; `sync` tells whether werift runs the
\* connectionStateChange subscribers inside close() or at a later turn.
RECURSIVE cleanup(_, _, _)
RECURSIVE onConnectionStateChange(_, _, _, _)
RECURSIVE connectionStateChange(_, _, _)

cleanup(t, p, sync) ==
    IF t.peers[p].isClosed THEN t
    ELSE LET dc == t.peers[p].dataChannel
             t1 == [t EXCEPT !.peers[p].isClosed = TRUE]
             t2 == IF dc # NoChannel
                   THEN [t1 EXCEPT !.peers[p].dcCloses = @ + 1,
                                   !.peers[p].readyState[dc] = "closed",
                                   !.peers[p].dataChannel = NoChannel]
                   ELSE t1
             t3 == [t2 EXCEPT !.peers[p].pcCloses = @ + 1,
                              !.peers[p].connectionState = "closed"]
         IN IF sync THEN connectionStateChange(t3, p, sync)
            ELSE [t3 EXCEPT !.peers[p].closedEventDue = TRUE]

\* server.js: the onConnectionStateChange the 'webrtc-offer' handler passes
onConnectionStateChange(t, p, state, sync) ==
    IF t.peers[p].owner = "socket" /\ state \in {"failed", "closed"}
                                   /\ t.webrtcPeer # NoPeer
    THEN [cleanup(t, t.webrtcPeer, sync) EXCEPT !.webrtcPeer = NoPeer]
    ELSE t

\* peerConnection.connectionStateChange subscriber
connectionStateChange(t, p, sync) ==
    LET state == t.peers[p].connectionState
        t1 == onConnectionStateChange(t, p, state, sync)
    IN IF state \in {"failed", "closed"} THEN cleanup(t1, p, sync) ELSE t1

\* close() of the peer interface
close(t, p, sync) == cleanup(t, p, sync)

\* ------------------------------------------------------------------ Init
\* the object and the runtime once the constructor has returned
Constructed ==
    [connected |-> FALSE, sequenceNumber |-> 0,
     pingInterval |-> DefaultPingInterval, pingTimer |-> NoTimer,
     lossSweepTimer |-> NoTimer, rttSamples |-> <<>>,
     packetsSent |-> 0, packetsReceived |-> 0,
     pendingPings |-> EmptyMap, lostCount |-> 0,
     intervals |-> {}, pingsInFlight |-> {},
     recvFor |-> [s \in Seqs |-> 0], lostFor |-> [s \in Seqs |-> 0],
     sentTimeout |-> [s \in Seqs |-> 0],
     usedSeqs |-> {}, display |-> PageAsLoaded, arrivals |-> <<>>,
     socketOpen |-> TRUE, webrtcPeer |-> NoPeer,
     peers |-> [p \in PeerIds |-> NotCreated]]

\* the state in which the object is t, nothing is on its way back from the
\* server and no handler has run
StartsAs(t) ==
    /\ connected = t.connected
    /\ sequenceNumber = t.sequenceNumber
    /\ pingInterval = t.pingInterval
    /\ pingTimer = t.pingTimer
    /\ lossSweepTimer = t.lossSweepTimer
    /\ rttSamples = t.rttSamples
    /\ packetsSent = t.packetsSent
    /\ packetsReceived = t.packetsReceived
    /\ pendingPings = t.pendingPings
    /\ lostCount = t.lostCount
    /\ intervals = t.intervals
    /\ pingsInFlight = t.pingsInFlight
    /\ recvFor = t.recvFor
    /\ lostFor = t.lostFor
    /\ sentTimeout = t.sentTimeout
    /\ usedSeqs = t.usedSeqs
    /\ display = t.display
    /\ arrivals = t.arrivals
    /\ socketOpen = t.socketOpen
    /\ webrtcPeer = t.webrtcPeer
    /\ peers = t.peers
    /\ pongsInFlight = {}
    /\ now = 0
    /\ pendingAtDisconnect = {}
    /\ lastEvent = Event("init", 0, FALSE, {})

Init == StartsAs(Constructed)

\* --------------------------------------------------------------- actions
\* socket.on('connect')
Connect ==
    /\ ~connected
    /\ sequenceNumber < MaxSeq
    /\ Commit(startLossSweep(startPinging([This EXCEPT !.connected = TRUE])))
    /\ lastEvent' = Event("connect", 0, FALSE, {})
    /\ UNCHANGED <<pongsInFlight, now, pendingAtDisconnect>>

\* socket.on('disconnect'); what was in flight on the closed transport is gone
Disconnect ==
    /\ connected
    /\ Commit([stopLossSweep(stopPinging([This EXCEPT !.connected = FALSE]))
                  EXCEPT !.pingsInFlight = {}])
    /\ pongsInFlight' = {}
    /\ pendingAtDisconnect' = pendingAtDisconnect \cup DOMAIN pendingPings
    /\ lastEvent' = Event("disconnect", 0, FALSE, {})
    /\ UNCHANGED now

\* pingInterval 'change' listener
IntervalChange(v) ==
    /\ connected => sequenceNumber < MaxSeq
    /\ Commit(onPingIntervalChange(This, v))
    /\ lastEvent' = Event("change", 0, connected, {})
    /\ UNCHANGED <<pongsInFlight, now, pendingAtDisconnect>>

\* the runtime runs a due interval callback and re-arms the timer
Rearm(t, x) ==
    [t EXCEPT !.intervals = (@ \ {x}) \cup {[x EXCEPT !.due = now + x.every]}]

\* setInterval(() => this.sendPing(), this.pingInterval) comes due;
\* `limit` caps the sequence numbers
PingTimerFireBelow(limit) ==
    /\ sequenceNumber < limit
    /\ \E x \in intervals :
          /\ x.fn = "sendPing"
          /\ now >= x.due
          /\ Commit(Rearm(sendPing(This), x))
    /\ lastEvent' = Event("pingTimer", sequenceNumber + 1, connected, {})
    /\ UNCHANGED <<pongsInFlight, now, pendingAtDisconnect>>

PingTimerFire == PingTimerFireBelow(MaxSeq)

\* setInterval(() => this.performLossSweep(), sweepInterval) comes due
SweepTimerFire ==
    /\ \E x \in intervals :
          /\ x.fn = "performLossSweep"
          /\ now >= x.due
          /\ Commit(Rearm(performLossSweep(This), x))
    /\ lastEvent' = Event("sweep", 0, connected, Expired(This))
    /\ UNCHANGED <<pongsInFlight, now, pendingAtDisconnect>>

\* sendPing() called on the object directly; `limit` caps the sequence numbers
SendPingCallBelow(limit) ==
    /\ connected => sequenceNumber < limit
    /\ Commit(sendPing(This))
    /\ lastEvent' = Event("sendPing", sequenceNumber + 1, connected, {})
    /\ UNCHANGED <<pongsInFlight, now, pendingAtDisconnect>>

SendPingCall == SendPingCallBelow(MaxSeq)

\* the handler with clientSentAt stamped by the server instead of copied
pongData_restamped(data, took) ==
    [sequenceNumber |-> data.sequenceNumber,
     clientSentAt |-> now,
     serverReceivedAt |-> now,
     serverSentAt |-> now + took]

\* server: socket.on('ping'); its two Date.now() calls are `took` ms apart
pongData(data, took) ==
    LET serverReceivedAt == now
        serverSentAt == now + took
    IN [sequenceNumber |-> data.sequenceNumber,
        clientSentAt |-> data.clientSentAt,
        serverReceivedAt |-> serverReceivedAt,
        serverSentAt |-> serverSentAt]

onPing(data, took) ==
    /\ pingsInFlight' = pingsInFlight \ {data}
    /\ pongsInFlight' = pongsInFlight \cup {pongData(data, took)}
    /\ now' = now + took
    /\ lastEvent' = Event("serverPing", data.sequenceNumber, FALSE, {})
    /\ UNCHANGED <<connected, sequenceNumber, pingInterval, pingTimer,
                   lossSweepTimer, rttSamples, packetsSent, packetsReceived,
                   pendingPings, lostCount, intervals, recvFor, lostFor,
                   sentTimeout, usedSeqs, pendingAtDisconnect, display,
                   arrivals, socketOpen, webrtcPeer, peers>>

\* at the granularity of Tick the handler takes no time
ServerPing == \E data \in pingsInFlight : onPing(data, 0)

\* socket.on('pong')
PongArrive ==
    /\ connected
    /\ \E data \in pongsInFlight :
          /\ Commit(handlePong(This, data))
          /\ pongsInFlight' = pongsInFlight \ {data}
          /\ lastEvent' = Event("pong", data.sequenceNumber,
                                data.sequenceNumber \in DOMAIN pendingPings, {})
    /\ UNCHANGED <<now, pendingAtDisconnect>>

\* time passes, up to `limit`
TickTo(limit) ==
    /\ now + TickMs <= limit
    /\ now' = now + TickMs
    /\ lastEvent' = Event("tick", 0, FALSE, {})
    /\ UNCHANGED <<connected, sequenceNumber, pingInterval, pingTimer,
                   lossSweepTimer, rttSamples, packetsSent, packetsReceived,
                   pendingPings, lostCount, intervals, pingsInFlight,
                   pongsInFlight, recvFor, lostFor, sentTimeout, usedSeqs,
                   pendingAtDisconnect, display, arrivals, socketOpen,
                   webrtcPeer, peers>>

Tick == TickTo(MaxTime)

Next ==
    \/ Connect
    \/ Disconnect
    \/ \E v \in PingIntervals : IntervalChange(v)
    \/ PingTimerFire
    \/ SweepTimerFire
    \/ SendPingCall
    \/ ServerPing
    \/ PongArrive
    \/ Tick

Spec == Init /\ [][Next]_vars

\* ------------------------------------------- a long stream of echoes
\* One connected session in which probe after probe is sent and echoed,
\* one at a time, long enough for the sample window to overflow.
WinMaxPongs == 52
WinMaxTime == 500

WinSend ==
    /\ connected
    /\ pingsInFlight = {}
    /\ pongsInFlight = {}
    /\ SendPingCallBelow(WinMaxPongs)

NextWindow ==
    \/ Connect
    \/ WinSend
    \/ ServerPing
    \/ PongArrive
    \/ TickTo(WinMaxTime)

SpecWindow == Init /\ [][NextWindow]_vars

\* ------------------------------------------------- the echo responder
\* The server's 'ping' handler on its own: any set of probes may be on its
\* way to the server, and the handler may take a millisecond.
EchoMaxSeq == 3
EchoProbes == [sequenceNumber : 1..EchoMaxSeq, clientSentAt : {0, 7}]
HandlerMs == {0, 1}

InitEcho ==
    \E P \in (SUBSET EchoProbes) \ {{}} :
        StartsAs([Constructed EXCEPT !.pingsInFlight = P])

EchoPing == \E data \in pingsInFlight : \E took \in HandlerMs : onPing(data, took)

SpecEcho == InitEcho /\ [][EchoPing]_vars

\* ------------------------------------------------ quality classification
\* getNetworkQuality on its own: the metrics handed to it and packetsSent
\* are drawn from values on both sides of every threshold (latency and
\* jitter in hundredths of a ms, loss in hundredths of a percent).
QualitySent == {0, 4, 5, 6}
QualityLatency == {0, 11900, 11999, 12000, 24999, 25000}
QualityJitter == {0, 2900, 2999, 3000, 7999, 8000}
QualityLoss == {0, 90, 99, 100, 299, 300}

InitQuality ==
    \E n \in QualitySent, a \in QualityLatency, j \in QualityJitter, l \in QualityLoss :
        StartsAs([Constructed EXCEPT
                     !.packetsSent = n,
                     !.display = [PageAsLoaded EXCEPT !.avgLatency = a,
                                                      !.jitter = j,
                                                      !.packetLoss = l]])

\* const quality = this.getNetworkQuality(metrics), put on the page
Classify ==
    /\ lastEvent.op = "init"
    /\ Commit([This EXCEPT !.display.quality = getNetworkQuality(This, display)])
    /\ lastEvent' = Event("classify", 0, FALSE, {})
    /\ UNCHANGED <<pongsInFlight, now, pendingAtDisconnect>>

SpecQuality == InitQuality /\ [][Classify]_vars

\* ------------------------------------------------ metrics of a window
\* calculateMetrics on its own: the sample window is any sequence of up to
\* MetricsMaxLen round-trip times.
MetricsMaxLen == 4
MetricsRtts == {10, 20, 25}

Windows == UNION {[1..n -> MetricsRtts] : n \in 0..MetricsMaxLen}

InitMetrics ==
    \E w \in Windows : StartsAs([Constructed EXCEPT !.rttSamples = w])

Refresh ==
    /\ lastEvent.op = "init"
    /\ Commit(updateMetricsDisplay(This))
    /\ lastEvent' = Event("refresh", 0, FALSE, {})
    /\ UNCHANGED <<pongsInFlight, now, pendingAtDisconnect>>

SpecMetrics == InitMetrics /\ [][Refresh]_vars

\* ------------------------------------------- one connected session
\* One session that is never disconnected: up to ScenProbes probes leave on
\* the ping timer; the server echoes a probe within ScenEchoWithin ms of its
\* sending or never, and an echo is handled by the client at the instant the
\* server sent it.
ScenProbes == 5
ScenMaxTime == 2500
ScenEchoWithin == 250

ScenServer ==
    \E data \in pingsInFlight :
        /\ now - data.clientSentAt <= ScenEchoWithin
        /\ onPing(data, 0)

ScenTick ==
    /\ pongsInFlight = {}
    /\ TickTo(ScenMaxTime)

NextScenario ==
    \/ Connect
    \/ PingTimerFireBelow(ScenProbes)
    \/ SweepTimerFire
    \/ ScenServer
    \/ PongArrive
    \/ ScenTick

SpecScenario == Init /\ [][NextScenario]_vars

\* ------------------------------------------------- malformed echoes
\* A session whose 'pong' events may also carry no payload, no
\* sequenceNumber or no clientSentAt; at most MalMaxPongs echoes of any kind
\* are handled.
MalMaxPongs == 2
MalMaxTime == 750

MalformedPongs ==
    {NoPayload, [clientSentAt |-> 0]} \cup {[sequenceNumber |-> s] : s \in Seqs}

BadPongArrive ==
    /\ connected
    /\ packetsReceived < MalMaxPongs
    /\ \E data \in MalformedPongs :
          /\ Commit(handlePong(This, data))
          /\ lastEvent' = Event("badPong", 0, FALSE, {})
    /\ UNCHANGED <<pongsInFlight, now, pendingAtDisconnect>>

NextMalformed ==
    \/ Connect
    \/ PingTimerFire
    \/ SweepTimerFire
    \/ ServerPing
    \/ PongArrive
    \/ BadPongArrive
    \/ TickTo(MalMaxTime)

SpecMalformed == Init /\ [][NextMalformed]_vars

\* ------------------------------------------------- fair timers
\* Sessions under fair scheduling: an armed timer that is due fires, and time
\* passes. Probes leave until LiveSendUntil, and time runs on to LiveMaxTime,
\* long enough for a sweep to come due after the timeout of the last probe.
\* Connecting, disconnecting and the network are under no obligation.
LiveSendUntil == 250
LiveMaxTime == 2000

LiveConnect ==
    /\ now <= LiveSendUntil
    /\ Connect

LivePingTimerFire ==
    /\ now <= LiveSendUntil
    /\ PingTimerFire

LiveTick == TickTo(LiveMaxTime)

NextLive ==
    \/ LiveConnect
    \/ Disconnect
    \/ LivePingTimerFire
    \/ SweepTimerFire
    \/ ServerPing
    \/ PongArrive
    \/ LiveTick

SpecLive ==
    /\ Init
    /\ [][NextLive]_vars
    /\ WF_vars(LivePingTimerFire)
    /\ WF_vars(SweepTimerFire)
    /\ WF_vars(LiveTick)

\* ------------------------------------------------ server: peer events
\* what a server-side handler did: `seq` is the peer, `arg` its input
ServerEvent(op, p, arg) ==
    [op |-> op, seq |-> p, hit |-> FALSE, swept |-> {}, arg |-> arg]

ServerStep(t, event) ==
    /\ Commit(t)
    /\ lastEvent' = event
    /\ UNCHANGED <<pongsInFlight, now, pendingAtDisconnect>>

\* whether the peer connection of p can still raise events of its own
Alive(p) == peers[p].created /\ peers[p].pcCloses = 0

\* peerConnection.onDataChannel: the client's data channel c arrives
DataChannelArrives(p, c) ==
    /\ Alive(p)
    /\ peers[p].readyState[c] = "none"
    /\ ServerStep([This EXCEPT !.peers[p].dataChannel = c,
                               !.peers[p].readyState[c] = "connecting"],
                  ServerEvent("dataChannel", p, c))

\* dataChannel.onOpen
ChannelOpens(p, c) ==
    /\ Alive(p)
    /\ peers[p].readyState[c] = "connecting"
    /\ ServerStep([This EXCEPT !.peers[p].readyState[c] = "open"],
                  ServerEvent("channelOpen", p, c))

\* dataChannel.onClose, the channel having been closed by the client
ChannelCloses(p, c) ==
    /\ Alive(p)
    /\ peers[p].readyState[c] \in {"connecting", "open"}
    /\ ServerStep([This EXCEPT !.peers[p].readyState[c] = "closed",
                               !.peers[p].dataChannel = NoChannel],
                  ServerEvent("channelClose", p, c))

\* dataChannel.onMessage: a text arrives on channel c, which is open or was
\* until a moment ago
ChannelMessage(p, c, data) ==
    /\ peers[p].created
    /\ peers[p].readyState[c] \in {"open", "closed"}
    /\ Len(peers[p].sent) < MaxSent
    /\ ServerStep(onMessage(This, p, data),
                  ServerEvent("message", p, [channel |-> c, data |-> data]))

\* the peer connection of p reports a connection state of its own
PeerConnectionState(p, state) ==
    /\ Alive(p)
    /\ peers[p].connectionState # state
    /\ \E sync \in BOOLEAN :
          ServerStep(connectionStateChange(
                        [This EXCEPT !.peers[p].connectionState = state], p, sync),
                     ServerEvent("connectionState", p, state))

\* the "closed" event of a peerConnection.close() that was not delivered
\* inside the call reaches the subscriber
ClosedEventFires(p) ==
    /\ peers[p].closedEventDue
    /\ \E sync \in BOOLEAN :
          ServerStep(connectionStateChange(
                        [This EXCEPT !.peers[p].closedEventDue = FALSE], p, sync),
                     ServerEvent("connectionState", p, "closed"))

\* ---------------------------------------------- server: peer interface
CallClose(p) ==
    /\ peers[p].created
    /\ \E sync \in BOOLEAN :
          ServerStep(close(This, p, sync), ServerEvent("close", p, 0))

CallHandleOffer(p) ==
    /\ peers[p].created
    /\ peers[p].isClosed \/ peers[p].offers < MaxCalls
    /\ ServerStep(handleOffer(This, p), ServerEvent("handleOffer", p, 0))

CandidateInits == {"null", "candidate"}

CallAddIceCandidate(p, candidateInit) ==
    /\ peers[p].created
    /\ peers[p].isClosed \/ peers[p].iceAdds < MaxCalls
    /\ ServerStep(addIceCandidate(This, p, candidateInit),
                  ServerEvent("addIceCandidate", p, candidateInit))

\* one peer, driven through its interface in any order; it was made with
\* the default callbacks or with those of server.js
InitPeer ==
    \E owner \in {"none", "socket"} :
        StartsAs([Constructed EXCEPT
                    !.peers[1] = createNetworkTestPeer(owner),
                    !.webrtcPeer = IF owner = "socket" THEN 1 ELSE NoPeer])

NextPeer ==
    \E p \in PeerIds :
        \/ CallClose(p)
        \/ CallHandleOffer(p)
        \/ \E candidateInit \in CandidateInits : CallAddIceCandidate(p, candidateInit)
        \/ \E state \in {"connected", "failed"} : PeerConnectionState(p, state)
        \/ ClosedEventFires(p)
        \/ \E c \in ChanIds :
              \/ DataChannelArrives(p, c)
              \/ ChannelOpens(p, c)
              \/ ChannelCloses(p, c)

SpecPeer == InitPeer /\ [][NextPeer]_vars

\* the data channels of one peer: they arrive, open, carry texts and close,
\* and the peer is closed at some point
NextChannel ==
    \E p \in PeerIds :
        \/ CallClose(p)
        \/ ClosedEventFires(p)
        \/ \E c \in ChanIds :
              \/ DataChannelArrives(p, c)
              \/ ChannelOpens(p, c)
              \/ ChannelCloses(p, c)
              \/ \E data \in ChannelTexts : ChannelMessage(p, c, data)

SpecChannel == InitPeer /\ [][NextChannel]_vars

\* --------------------------------------------- server: WebRTC signaling
\* the slot the next createNetworkTestPeer call of the socket fills
NextPeerId(t) == CHOOSE p \in PeerIds : \A q \in PeerIds : t.peers[q].created <=> q < p

\* socket.on('webrtc-offer') up to the await of handleOffer
WebrtcOffer ==
    /\ socketOpen
    /\ \E p \in PeerIds : ~peers[p].created
    /\ \E sync \in BOOLEAN :
          LET t1 == IF webrtcPeer # NoPeer THEN close(This, webrtcPeer, sync) ELSE This
              p == NextPeerId(t1)
              t2 == [t1 EXCEPT !.peers[p] = createNetworkTestPeer("socket"),
                               !.webrtcPeer = p]
          IN ServerStep(handleOffer(t2, p), ServerEvent("webrtc-offer", p, webrtcPeer))

\* the rest of the 'webrtc-offer' handler: handleOffer resolves and the
\* answer is emitted, or it rejects and 'webrtc-error' is emitted
OfferSettles(p, answered) ==
    /\ peers[p].offerResult = "pending"
    /\ ServerStep([This EXCEPT !.peers[p].offerResult =
                                  IF answered THEN "answered" ELSE "error"],
                  ServerEvent("offerSettles", p, answered))

\* socket.on('webrtc-ice-candidate')
WebrtcIceCandidate(candidateInit) ==
    /\ socketOpen
    /\ webrtcPeer # NoPeer =>
          peers[webrtcPeer].isClosed \/ peers[webrtcPeer].iceAdds < MaxCalls
    /\ ServerStep(IF webrtcPeer = NoPeer THEN This
                  ELSE addIceCandidate(This, webrtcPeer, candidateInit),
                  ServerEvent("webrtc-ice-candidate", webrtcPeer, candidateInit))

\* socket.on('disconnect') of the server
SocketDisconnect ==
    /\ socketOpen
    /\ \E sync \in BOOLEAN :
          LET t1 == [This EXCEPT !.socketOpen = FALSE]
          IN ServerStep(IF webrtcPeer # NoPeer
                        THEN [close(t1, webrtcPeer, sync) EXCEPT !.webrtcPeer = NoPeer]
                        ELSE t1,
                        ServerEvent("socketDisconnect", webrtcPeer, 0))

NextSignal ==
    \/ WebrtcOffer
    \/ SocketDisconnect
    \/ \E candidateInit \in CandidateInits : WebrtcIceCandidate(candidateInit)
    \/ \E p \in PeerIds :
          \/ \E answered \in BOOLEAN : OfferSettles(p, answered)
          \/ \E state \in {"connected", "failed"} : PeerConnectionState(p, state)
          \/ ClosedEventFires(p)
          \/ \E c \in ChanIds :
                \/ DataChannelArrives(p, c)
                \/ ChannelOpens(p, c)
                \/ ChannelCloses(p, c)

SpecSignal == Init /\ [][NextSignal]_vars

\* ================================================================ claims

\* the fields a session's accounting consists of
Accounting == <<packetsSent, packetsReceived, lostCount, pendingPings, rttSamples>>

\* C1: in every reachable state packetsSent equals packetsReceived plus
\* lostCount plus the number of entries of the pending probe table.
C1_Conservation ==
    packetsSent = packetsReceived + lostCount + Cardinality(DOMAIN pendingPings)

\* C2: handling an echo whose sequenceNumber is not in the pending table
\* leaves packetsReceived, lostCount, packetsSent, the pending table and
\* the sample window unchanged.
C2_AbsentEchoIgnored ==
    [][(lastEvent'.op = "pong" /\ ~lastEvent'.hit) => UNCHANGED Accounting]_vars

\* C3: no sequence number is accounted for more than once: it is never
\* counted as received and also as lost, nor counted twice either way.
C3_AccountedOnce ==
    \A s \in Seqs : recvFor[s] + lostFor[s] <= 1

\* the pending entries that are older than `timeout` ms
OlderThan(timeout) ==
    {s \in DOMAIN pendingPings : now - pendingPings[s] > timeout}

C6_DisconnectDiscards ==
    /\ lastEvent.op = "disconnect" => DOMAIN pendingPings = {}
    /\ \A s \in pendingAtDisconnect : lostFor[s] = 0

\* C7: at most one ping timer and at most one sweep timer are armed, and
\* every armed timer is the one whose handle the object holds.
C7_OneSchedule ==
    /\ Cardinality({x \in intervals : x.fn = "sendPing"}) <= 1
    /\ Cardinality({x \in intervals : x.fn = "performLossSweep"}) <= 1
    /\ \A x \in intervals :
          \/ x.fn = "sendPing" /\ x.id = pingTimer
          \/ x.fn = "performLossSweep" /\ x.id = lossSweepTimer

\* the interval was just changed while connected: both timers were
\* stopped and started again, and the restart sent the second probe
C7_Witness ==
    /\ lastEvent.op = "change"
    /\ lastEvent.hit
    /\ sequenceNumber = 2
    /\ Cardinality(intervals) = 2

\* C8: both timers are armed while connected, with the current interval,
\* and none is armed while disconnected.
C8_ArmedIffConnected ==
    IF connected
    THEN /\ pingTimer # NoTimer
         /\ lossSweepTimer # NoTimer
         /\ \E x \in intervals : x.id = pingTimer /\ x.fn = "sendPing"
         /\ \E x \in intervals : x.id = lossSweepTimer /\ x.fn = "performLossSweep"
    ELSE /\ pingTimer = NoTimer
         /\ lossSweepTimer = NoTimer
         /\ intervals = {}

\* the interval was just changed while disconnected, after a session
C8_Witness ==
    /\ lastEvent.op = "change"
    /\ ~lastEvent.hit
    /\ ~connected
    /\ packetsSent > 0

\* C9: sendPing called while not connected changes no field of the object
\* and emits nothing.
C9_SendWhileDisconnected ==
    [][(lastEvent'.op = "sendPing" /\ ~connected) =>
          UNCHANGED <<sequenceNumber, packetsSent, pendingPings, packetsReceived,
                      lostCount, rttSamples, pingsInFlight, pingInterval,
                      pingTimer, lossSweepTimer, intervals, connected>>]_vars

\* sendPing has just run while disconnected, after a session
C9_Witness ==
    /\ lastEvent.op = "sendPing"
    /\ ~lastEvent.hit
    /\ ~connected
    /\ packetsSent > 0

\* the steps in which sendPing runs on a connected socket
SendPingRan ==
    /\ lastEvent'.op \in {"sendPing", "pingTimer", "connect", "change"}
    /\ connected'
    /\ lastEvent'.op # "connect" => connected

\* C10: sendPing on a connected socket takes a sequence number greater than
\* every one used before, adds exactly one pending entry for it with
\* sentAt = now, adds 1 to packetsSent and emits exactly one probe with
\* that number and that sentAt; packetsReceived, lostCount and the sample
\* window stay as they were.
C10_SendWhileConnected ==
    [][SendPingRan =>
          LET seq == sequenceNumber'
              probe == [sequenceNumber |-> seq, clientSentAt |-> now]
          IN /\ \A u \in usedSeqs : seq > u
             /\ seq > sequenceNumber
             /\ seq \notin DOMAIN pendingPings
             /\ DOMAIN pendingPings' = (DOMAIN pendingPings) \cup {seq}
             /\ pendingPings'[seq] = now
             /\ \A s \in DOMAIN pendingPings : pendingPings'[s] = pendingPings[s]
             /\ packetsSent' = packetsSent + 1
             /\ probe \notin pingsInFlight
             /\ pingsInFlight' = pingsInFlight \cup {probe}
             /\ UNCHANGED <<packetsReceived, lostCount, rttSamples>>]_vars

\* the ping timer has just sent the second probe of the session
C10_Witness ==
    /\ lastEvent.op = "pingTimer"
    /\ sequenceNumber = 2
    /\ 2 \in DOMAIN pendingPings
    /\ pendingPings[2] = now
    /\ [sequenceNumber |-> 2, clientSentAt |-> now] \in pingsInFlight

\* C11: the sample window never holds more than 50 samples and always is
\* the most recent min(n, 50) of the n rtt values pushed so far, in the
\* order they arrived.
C11_WindowFifo ==
    LET n == Len(arrivals)
        k == IF n < 50 THEN n ELSE 50
    IN /\ Len(rttSamples) <= 50
       /\ rttSamples = SubSeq(arrivals, n - k + 1, n)

\* the 51st sample has been pushed and the 1st, which differs from the
\* 2nd, is gone
C11_Witness ==
    /\ Len(arrivals) = 51
    /\ arrivals[1] # arrivals[2]
    /\ Len(rttSamples) = 50
    /\ rttSamples[1] = arrivals[2]
    /\ rttSamples[50] = arrivals[51]

\* C12: when the connect handler has run (it sends the first probe of the
\* session itself) the counters, the sample window and the pending table
\* hold that one probe and nothing from an earlier session; while the
\* client is disconnected the counters keep their values.
C12_FreshSession ==
    /\ [](lastEvent.op = "connect" =>
             /\ packetsSent = 1
             /\ packetsReceived = 0
             /\ lostCount = 0
             /\ rttSamples = <<>>
             /\ DOMAIN pendingPings = {sequenceNumber})
    /\ [][~connected' => UNCHANGED <<packetsSent, packetsReceived, lostCount>>]_vars

EchoFields == {"sequenceNumber", "clientSentAt", "serverReceivedAt", "serverSentAt"}

\* C13: the 'ping' handler takes one probe and emits exactly one echo,
\* with the probe's sequenceNumber and clientSentAt unchanged and with
\* serverReceivedAt <= serverSentAt; the echo is determined by the probe
\* and the clock alone, and the echoes emitted before stay as they are.
C13_EchoRelay ==
    [][lastEvent'.op = "serverPing" =>
          \E data \in pingsInFlight :
             /\ pingsInFlight' = pingsInFlight \ {data}
             /\ \E e \in pongsInFlight' :
                   /\ e \notin pongsInFlight
                   /\ pongsInFlight' = pongsInFlight \cup {e}
                   /\ DOMAIN e = EchoFields
                   /\ e.sequenceNumber = data.sequenceNumber
                   /\ e.clientSentAt = data.clientSentAt
                   /\ e.serverReceivedAt = now
                   /\ e.serverReceivedAt <= e.serverSentAt]_vars

\* a probe has just been echoed after another one, by a handler run that
\* took time, at a server time that differs from the probe's clientSentAt
C13_Witness ==
    /\ lastEvent.op = "serverPing"
    /\ Cardinality(pongsInFlight) >= 2
    /\ \E e \in pongsInFlight :
          /\ e.sequenceNumber = lastEvent.seq
          /\ e.serverSentAt = now
          /\ e.serverReceivedAt < e.serverSentAt
          /\ e.clientSentAt # e.serverReceivedAt

\* C14: the quality is Unknown when packetsSent < 5; otherwise Good iff
\* avgLatency < 120, jitter < 30 and packetLoss < 1; otherwise Moderate iff
\* avgLatency < 250, jitter < 80 and packetLoss < 3; otherwise Poor.  So
\* (119, 29, 0.9) with packetsSent = 5 is Good and (120, 29, 0.9) is not.
C14_Quality ==
    lastEvent.op = "classify" =>
        LET a == display.avgLatency
            j == display.jitter
            l == display.packetLoss
            good == a < 12000 /\ j < 3000 /\ l < 100
            moderate == a < 25000 /\ j < 8000 /\ l < 300
        IN /\ display.quality \in {"Unknown", "Good", "Moderate", "Poor"}
           /\ display.quality = "Unknown" <=> packetsSent < 5
           /\ display.quality = "Good" <=> (packetsSent >= 5 /\ good)
           /\ display.quality = "Moderate" <=> (packetsSent >= 5 /\ ~good /\ moderate)
           /\ display.quality = "Poor" <=> (packetsSent >= 5 /\ ~good /\ ~moderate)
           /\ (packetsSent = 5 /\ a = 11900 /\ j = 2900 /\ l = 90) => display.quality = "Good"
           /\ (packetsSent = 5 /\ a = 12000 /\ j = 2900 /\ l = 90) => display.quality # "Good"

\* (120, 29, 0.9) with packetsSent = 5 has just been classified, as Moderate
C14_Witness ==
    /\ lastEvent.op = "classify"
    /\ packetsSent = 5
    /\ display.avgLatency = 12000
    /\ display.jitter = 2900
    /\ display.packetLoss = 90
    /\ display.quality = "Moderate"

\* the absolute differences of the first k samples' consecutive pairs, added up
RECURSIVE DiffTotal(_)
DiffTotal(k) ==
    IF k < 2 THEN 0
    ELSE DiffTotal(k - 1) + (IF rttSamples[k] >= rttSamples[k - 1]
                             THEN rttSamples[k] - rttSamples[k - 1]
                             ELSE rttSamples[k - 1] - rttSamples[k])

\* C17: jitter is the mean of the absolute differences of consecutive
\* samples, to the nearest hundredth; it is 0 for fewer than 2 samples and
\* for 2 or more samples that are all equal.
C17_Jitter ==
    lastEvent.op = "refresh" =>
        LET n == Len(rttSamples)
            j == display.jitter
        IN /\ n < 2 => j = 0
           /\ n >= 2 =>
                 /\ 2 * j * (n - 1) > 2 * 100 * DiffTotal(n) - (n - 1)
                 /\ 2 * j * (n - 1) <= 2 * 100 * DiffTotal(n) + (n - 1)
           /\ (\A i \in 1..n : rttSamples[i] = rttSamples[1]) => j = 0

\* the jitter of 10, 20, 20, 20 has just been computed: 10 / 3 = 3.33
C17_Witness ==
    /\ lastEvent.op = "refresh"
    /\ rttSamples = <<10, 20, 20, 20>>
    /\ display.jitter = 333

\* a sweep has just run, no echo is on its way, and every probe that was not
\* echoed is older than the timeout
Settled ==
    /\ connected
    /\ lastEvent.op = "sweep"
    /\ pongsInFlight = {}
    /\ \A p \in pingsInFlight :
          now - p.clientSentAt > pingInterval * lossTimeoutFactor

\* C18: in one connected session with n probes sent, of which k were never
\* echoed and the others echoed once before their timeout, a sweep after the
\* unanswered probes' timeout leaves packetsSent = n, packetsReceived = n - k,
\* lostCount = k, no pending entry and a packet loss of k / n x 100.
C18_EndToEnd ==
    Settled =>
        LET n == Cardinality(usedSeqs)
            k == Cardinality(pingsInFlight)
        IN /\ packetsSent = n
           /\ packetsReceived = n - k
           /\ lostCount = k
           /\ pendingPings = EmptyMap
           /\ 2 * display.packetLoss * n > 2 * 100 * 100 * k - n
           /\ 2 * display.packetLoss * n <= 2 * 100 * 100 * k + n

\* 5 probes sent, 2 never answered, the sweep has run: 3 received, 2 lost, 40%
C18_Witness ==
    /\ Settled
    /\ Cardinality(usedSeqs) = 5
    /\ Cardinality(pingsInFlight) = 2
    /\ packetsReceived = 3
    /\ lostCount = 2
    /\ display.packetLoss = 4000

C16_ReadmeLoss ==
    packetsSent > 0 =>
        LET unanswered == packetsSent - packetsReceived
            loss == display.packetLoss
        IN /\ 2 * loss * packetsSent > 2 * 100 * 100 * unanswered - packetsSent
           /\ 2 * loss * packetsSent <= 2 * 100 * 100 * unanswered + packetsSent

\* C19: handling a malformed echo leaves packetsReceived, lostCount, the
\* pending table and the sample window as they were, and both timers armed.
C19_MalformedDropped ==
    [][lastEvent'.op = "badPong" =>
          /\ UNCHANGED <<packetsReceived, lostCount, pendingPings, rttSamples>>
          /\ UNCHANGED <<connected, pingTimer, lossSweepTimer, intervals>>]_vars

\* C20: one sweep at time now with timeout T = pingInterval x
\* lossTimeoutFactor removes exactly the pending entries with
\* now - sentAt > T, keeps the others as they are, adds the number removed
\* to lostCount and leaves packetsSent, packetsReceived and the sample
\* window alone; a sweep over an empty table changes nothing of the tester.
C20_SweepStep ==
    [][lastEvent'.op = "sweep" =>
          LET T == pingInterval * lossTimeoutFactor
              old == {s \in DOMAIN pendingPings : now - pendingPings[s] > T}
              young == {s \in DOMAIN pendingPings : now - pendingPings[s] <= T}
          IN /\ DOMAIN pendingPings' = young
             /\ \A s \in young : pendingPings'[s] = pendingPings[s]
             /\ lostCount' = lostCount + Cardinality(old)
             /\ UNCHANGED <<packetsSent, packetsReceived, rttSamples>>
             /\ pendingPings = EmptyMap =>
                   UNCHANGED <<lostCount, pendingPings, display, sequenceNumber,
                               pingInterval, connected>>]_vars

\* a sweep has just removed two probes at once and counted both
C20_Witness ==
    /\ lastEvent.op = "sweep"
    /\ Cardinality(lastEvent.swept) = 2
    /\ lostCount = 2
    /\ pendingPings = EmptyMap

\* C23: in every state sequenceNumber equals packetsSent and every key of
\* the pending table lies in 1..sequenceNumber; no step, disconnect and
\* reconnect included, decrements either counter.
C23_SeqIsSent ==
    /\ [](/\ sequenceNumber = packetsSent
          /\ DOMAIN pendingPings \subseteq 1..sequenceNumber)
    /\ [][/\ sequenceNumber' >= sequenceNumber
          /\ packetsSent' >= packetsSent]_vars

\* the second session has just started: its first probe took number 2 while
\* probe 1, pending at the disconnect, is still in the table
C23_Witness ==
    /\ lastEvent.op = "connect"
    /\ pendingAtDisconnect = {1}
    /\ sequenceNumber = 2
    /\ packetsSent = 2
    /\ DOMAIN pendingPings = {1, 2}

\* C21: under fair firing of the armed timers every probe that is in the
\* pending table is eventually out of it, the probes that were pending at a
\* disconnect included.
C21_EventuallyRemoved ==
    \A s \in Seqs : (s \in DOMAIN pendingPings) ~> (s \notin DOMAIN pendingPings)

\* what the data channel handler sends out for a text: nothing, or one text
PongFor(data) ==
    CASE data = "{\"type\":\"ping\",\"timestamp\":1}" -> <<"{\"type\":\"pong\",\"timestamp\":1}">>
      [] data = "{\"type\":\"ping\",\"timestamp\":2}" -> <<"{\"type\":\"pong\",\"timestamp\":2}">>
      [] data = "{\"type\":\"ping\"}" -> <<"{\"type\":\"pong\"}">>
      [] OTHER -> <<>>

\* C22: a text on the data channel that is no JSON or whose type is not
\* 'ping' sends nothing and changes nothing; a 'ping' sends exactly one
\* 'pong' with the same timestamp when the peer's data channel is open at
\* that moment, and nothing when it is not.
C22_DataChannelEcho ==
    [][lastEvent'.op = "message" =>
          LET p == lastEvent'.seq
              dc == peers[p].dataChannel
              isOpen == dc # NoChannel /\ peers[p].readyState[dc] = "open"
              out == IF isOpen THEN PongFor(lastEvent'.arg.data) ELSE <<>>
          IN /\ peers' = [peers EXCEPT ![p].sent =
                            @ \o [i \in 1..Len(out) |-> [channel |-> dc, text |-> out[i]]]]
             /\ UNCHANGED <<webrtcPeer, socketOpen>>]_vars

\* the ping with timestamp 2 has just been answered on the open channel
C22_Witness ==
    /\ lastEvent.op = "message"
    /\ lastEvent.arg.data = "{\"type\":\"ping\",\"timestamp\":2}"
    /\ \E c \in ChanIds :
          /\ peers[1].dataChannel = c
          /\ peers[1].readyState[c] = "open"
          /\ peers[1].sent = <<[channel |-> c, text |-> "{\"type\":\"pong\",\"timestamp\":2}"]>>

\* C25: peerConnection.close() and dataChannel.close() are called at most
\* once per peer whatever close() calls and connection-state events come; a
\* closed peer stays closed, its handleOffer throws 'Peer connection is
\* closed' and its addIceCandidate returns with the peer connection untouched.
C25_CloseFinal ==
    /\ [](\A p \in PeerIds : peers[p].pcCloses <= 1 /\ peers[p].dcCloses <= 1)
    /\ [][\A p \in PeerIds : peers[p].isClosed => peers'[p].isClosed]_vars
    /\ [][(lastEvent'.op = "handleOffer" /\ peers[lastEvent'.seq].isClosed) =>
             /\ peers'[lastEvent'.seq].offerResult = "Peer connection is closed"
             /\ peers'[lastEvent'.seq].offers = peers[lastEvent'.seq].offers]_vars
    /\ [][(lastEvent'.op = "addIceCandidate" /\ peers[lastEvent'.seq].isClosed) =>
             peers' = peers]_vars

\* handleOffer has just thrown on a peer whose peer connection and data
\* channel were closed, once each
C25_Witness ==
    /\ lastEvent.op = "handleOffer"
    /\ peers[1].isClosed
    /\ peers[1].pcCloses = 1
    /\ peers[1].dcCloses = 1
    /\ peers[1].offers = 0
    /\ peers[1].offerResult = "Peer connection is closed"

\* C24: the socket never has more than one peer that is not closed; a
\* 'webrtc-offer' leaves the peer it supersedes closed; and when a peer that
\* is not the socket's current one reports 'closed' or 'failed', the current
\* peer is not closed by it and stays the socket's peer.
C24_Superseded ==
    /\ [](Cardinality({p \in PeerIds : peers[p].created /\ ~peers[p].isClosed}) <= 1)
    /\ [][(lastEvent'.op = "webrtc-offer" /\ webrtcPeer # NoPeer) =>
             peers'[webrtcPeer].isClosed]_vars
    /\ [][(/\ lastEvent'.op = "connectionState"
           /\ lastEvent'.arg \in {"closed", "failed"}
           /\ webrtcPeer # NoPeer
           /\ lastEvent'.seq # webrtcPeer) =>
             /\ webrtcPeer' = webrtcPeer
             /\ peers'[webrtcPeer].isClosed = peers[webrtcPeer].isClosed]_vars

====
